---- MODULE Spec2Model ----
(***************************************************************************)
(* Model of the Brother QL protocol layer (src/src/printer.rs) and of the  *)
(* label geometry table (src/src/printer/constants.rs).                    *)
(*                                                                         *)
(* The specifications of the module:                                       *)
(*   Spec        the print sequencer: print / print_blocking driving the   *)
(*               USB transport, one action per transport operation;        *)
(*   SpecDecode  the status decoder `read` applied to bounded raw replies; *)
(*   further specifications, one per function, are introduced below with   *)
(*   the function they exercise.                                           *)
(***************************************************************************)
EXTENDS Integers, Sequences, FiniteSets, TLC

VARIABLES
    pc,            \* position of the running call
    entry,         \* which public method was called: "print" / "print_blocking"
    raster_lines,  \* the argument of print
    log,           \* every transport operation performed so far, in order
    status,        \* print's local `status` (first decoded reply)
    label,         \* print's local `label`
    line_idx,      \* raster lines the `for line in raster_lines.iter()` loop has taken
    print_ret,     \* value returned by print
    blocking_ret,  \* value returned by print_blocking
    polls,         \* iterations of print_blocking's loop that slept
    rx,            \* SpecDecode: outcome of read_bulk handed to the decoder
    decoded,       \* SpecDecode: what `read` returned for rx
    call,          \* single-function specifications: the function called and its arguments
    ret            \* single-function specifications: what the call returned

vars == <<pc, entry, raster_lines, log, status, label, line_idx,
          print_ret, blocking_ret, polls, rx, decoded, call, ret>>

seqVars == <<pc, entry, raster_lines, log, status, label, line_idx,
             print_ret, blocking_ret, polls>>

decVars == <<rx, decoded>>

fnVars == <<call, ret>>

-----------------------------------------------------------------------------
(* Bounds of the model *)

MaxLines == 2      \* longest raster_lines argument explored
MaxPolls == 2      \* iterations of the completion loop explored

-----------------------------------------------------------------------------
(* Rust values *)

None == [some |-> FALSE]
Some(v) == [some |-> TRUE, val |-> v]

Ok(v) == [ok |-> TRUE, val |-> v]
Err(e) == [ok |-> FALSE, err |-> e]

Unit == "()"
NotReturned == [ok |-> FALSE, err |-> "<not returned>"]

Byte == 0..255

\* u8 & u8
RECURSIVE BitAnd(_, _)
BitAnd(a, b) ==
    IF a = 0 \/ b = 0 THEN 0
    ELSE (IF a % 2 = 1 /\ b % 2 = 1 THEN 1 ELSE 0) + 2 * BitAnd(a \div 2, b \div 2)

-----------------------------------------------------------------------------
(* constants.rs: label_data *)

Label(ts, d, dp, rm, fm) ==
    [tape_size |-> ts, dots |-> d, dots_printable |-> dp,
     right_margin |-> rm, feed_margin |-> fm]

label_data(height, width) ==
    IF width.some
    THEN \* Die cut label
      LET k == <<height, width.val>> IN
      CASE k = <<17, 54>>  -> Some(Label(<<17, 54>>,  <<201, 636>>,  <<165, 566>>,  0,  0))
        [] k = <<17, 87>>  -> Some(Label(<<17, 87>>,  <<201, 1026>>, <<165, 956>>,  0,  0))
        [] k = <<23, 23>>  -> Some(Label(<<23, 23>>,  <<272, 272>>,  <<202, 202>>,  42, 0))
        [] k = <<29, 42>>  -> Some(Label(<<29, 42>>,  <<342, 495>>,  <<306, 425>>,  6,  0))
        [] k = <<29, 90>>  -> Some(Label(<<29, 90>>,  <<342, 1061>>, <<306, 991>>,  6,  0))
        [] k = <<39, 90>>  -> Some(Label(<<38, 90>>,  <<449, 1061>>, <<413, 991>>,  12, 0))
        [] k = <<39, 48>>  -> Some(Label(<<39, 48>>,  <<461, 565>>,  <<425, 495>>,  6,  0))
        [] k = <<52, 29>>  -> Some(Label(<<52, 29>>,  <<614, 341>>,  <<578, 271>>,  0,  0))
        [] k = <<62, 29>>  -> Some(Label(<<62, 29>>,  <<732, 341>>,  <<696, 271>>,  12, 0))
        [] k = <<62, 100>> -> Some(Label(<<62, 100>>, <<732, 1179>>, <<696, 1109>>, 12, 0))
        [] OTHER -> None
    ELSE \* Continuous label
      CASE height = 12  -> Some(Label(<<12, 0>>,  <<142, 0>>,  <<106, 0>>,  29, 35))
        [] height = 29  -> Some(Label(<<29, 0>>,  <<342, 0>>,  <<306, 0>>,  6,  35))
        [] height = 38  -> Some(Label(<<38, 0>>,  <<449, 0>>,  <<413, 0>>,  12, 35))
        [] height = 50  -> Some(Label(<<50, 0>>,  <<590, 0>>,  <<554, 0>>,  12, 35))
        [] height = 54  -> Some(Label(<<54, 0>>,  <<636, 0>>,  <<590, 0>>,  0,  35))
        [] height = 62  -> Some(Label(<<62, 0>>,  <<732, 0>>,  <<696, 0>>,  12, 35))
        [] height = 102 -> Some(Label(<<102, 0>>, <<1200, 0>>, <<1164, 0>>, 12, 35))
        [] OTHER -> None

-----------------------------------------------------------------------------
(* printer.rs: read -- decoding of a status reply *)

RECEIVE_SIZE == 32

model_name(b) ==
    CASE b = \H4F -> "QL-500/550"
      [] b = \H31 -> "QL-560"
      [] b = \H32 -> "QL-570"
      [] b = \H33 -> "QL-580N"
      [] b = \H51 -> "QL-650TD"
      [] b = \H35 -> "QL-700"
      [] b = \H50 -> "QL-1050"
      [] b = \H34 -> "QL-1060N"
      [] OTHER -> "Unknown"

error_if(byte, flag, message, errors) ==
    IF BitAnd(byte, flag) # 0 THEN Append(errors, message) ELSE errors

decode_errors_swapped(response) ==
    LET e1 == error_if(response[8], \H80, "Fan doesn't work", <<>>)
        e2 == error_if(response[8], \H02, "End of media", e1)
        e3 == error_if(response[8], \H04, "Tape cutter jam", e2)
        e4 == error_if(response[8], \H10, "Main unit in use", e3)
        e5 == error_if(response[8], \H01, "No media when printing", e4)
        e6 == error_if(response[9], \H04, "Transmission error", e5)
        e7 == error_if(response[9], \H10, "Cover open", e6)
        e8 == error_if(response[9], \H40, "Cannot feed", e7)
        e9 == error_if(response[9], \H80, "System error", e8)
    IN e9

decode_errors(response) ==
    LET e1 == error_if(response[8], \H01, "No media when printing", <<>>)
        e2 == error_if(response[8], \H02, "End of media", e1)
        e3 == error_if(response[8], \H04, "Tape cutter jam", e2)
        e4 == error_if(response[8], \H10, "Main unit in use", e3)
        e5 == error_if(response[8], \H80, "Fan doesn't work", e4)
        e6 == error_if(response[9], \H04, "Transmission error", e5)
        e7 == error_if(response[9], \H10, "Cover open", e6)
        e8 == error_if(response[9], \H40, "Cannot feed", e7)
        e9 == error_if(response[9], \H80, "System error", e8)
    IN e9

decode_media_type(b) ==
    CASE b = \H0A -> "ContinuousTape"
      [] b = \H0B -> "DieCutLabels"
      [] OTHER -> "None"

decode_status_type(b) ==
    CASE b = \H00 -> "ReplyToStatusRequest"
      [] b = \H01 -> "PrintingCompleted"
      [] b = \H02 -> "ErrorOccurred"
      [] b = \H05 -> "Notification"
      [] b = \H06 -> "PhaseChange"
      [] OTHER -> "Notification"   \* Will never occur

valid_reply_marker_only(bytes_read, response) ==
    ~(response[0] # \H80)

valid_reply(bytes_read, response) ==
    ~(bytes_read # RECEIVE_SIZE \/ response[0] # \H80)

decode_response_shifted(response) ==
    [model       |-> model_name(response[4]),
     status_type |-> decode_status_type(response[17]),
     errors      |-> decode_errors(response),
     media       |-> [media_type |-> decode_media_type(response[11]),
                      width      |-> response[10],
                      length     |-> response[18]]]

decode_response(response) ==
    [model       |-> model_name(response[4]),
     status_type |-> decode_status_type(response[18]),
     errors      |-> decode_errors(response),
     media       |-> [media_type |-> decode_media_type(response[11]),
                      width      |-> response[10],
                      length     |-> response[17]]]

\* `o` is what read_bulk did: failed (usb_ok = FALSE) or stored o.n bytes into
\* the buffer o.buf.
read(o) ==
    IF ~o.usb_ok THEN Err("USB")
    ELSE IF ~valid_reply(o.n, o.buf)
         THEN Err("Invalid response received from printer")
         ELSE Ok(decode_response(o.buf))

-----------------------------------------------------------------------------
(* printer.rs: the commands print builds *)

RASTER_LINE_LENGTH == 90

VALID_FLAGS == 206   \* 0x80 | 0x02 | 0x04 | 0x08 | 0x40

status_command == <<\H1B, \H69, \H53>>

mode_command == <<\H1B, \H69, \H61, 1>>

\* match status.media.media_type { ContinuousTape => 0x0A, DieCutLabels => 0x0B, _ => return Err }
media_type_code(media_type) ==
    CASE media_type = "ContinuousTape" -> Some(\H0A)
      [] media_type = "DieCutLabels"   -> Some(\H0B)
      [] OTHER -> None

\* A u32 is held as its two 16-bit halves <<high, low>>, so that the whole
\* range 0..2^32-1 is available.

\* raster_lines.len() as u32
as_u32(n) == <<(n \div 65536) % 65536, n % 65536>>

\* u32::to_le_bytes
to_le_bytes_be(u) == <<u[1] \div 256, u[1] % 256, u[2] \div 256, u[2] % 256>>

to_le_bytes(u) == <<u[2] % 256, u[2] \div 256, u[1] % 256, u[1] \div 256>>

\* The 13-byte array with bytes 7..10 overwritten by the four bytes line_count.
media_command_of(media_type, media, line_count) ==
    <<\H1B, \H69, \H7A, VALID_FLAGS, media_type, media.width, media.length>>
        \o line_count \o <<\H01, 0>>

media_command_no_count(media_type, media, lines) ==
    <<\H1B, \H69, \H7A, VALID_FLAGS, media_type, media.width, media.length,
      0, 0, 0, 0, \H01, 0>>

media_command(media_type, media, lines) ==
    media_command_of(media_type, media, to_le_bytes(as_u32(Len(lines))))

auto_cut_command == <<\H1B, \H69, \H4D, 64>>        \* 1 << 6

cut_settings_command == <<\H1B, \H69, \H4B, 8>>     \* 1 << 3 | 0 << 6

margins_command(l) == <<\H1B, \H69, \H64, l.feed_margin, 0>>

raster_command(line) == <<\H67, \H00, RASTER_LINE_LENGTH>> \o line

print_command == <<\H1A>>

-----------------------------------------------------------------------------
(* The inputs explored *)

\* Two distinguishable raster lines of RASTER_LINE_LENGTH bytes.
LineBlank == [i \in 1..RASTER_LINE_LENGTH |-> 0]

LineInk == [i \in 1..RASTER_LINE_LENGTH |-> IF i = 1 THEN 0 ELSE 256 - i]

LineValues == {LineBlank, LineInk}

RasterInputs == UNION {[1..n -> LineValues] : n \in 0..MaxLines}

\* A 32-byte status reply as the device lays it out.
MkReply(marker, model, e8, e9, width, mtype, length, stype) ==
    [i \in 0..(RECEIVE_SIZE - 1) |->
        CASE i = 0  -> marker
          [] i = 1  -> \H20
          [] i = 2  -> \H42
          [] i = 3  -> \H30
          [] i = 4  -> model
          [] i = 8  -> e8
          [] i = 9  -> e9
          [] i = 10 -> width
          [] i = 11 -> mtype
          [] i = 17 -> length
          [] i = 18 -> stype
          [] OTHER  -> 0]

\* A transfer that stopped after n bytes: the rest of the buffer keeps its zeros.
Truncated(buf, n) == [i \in 0..(RECEIVE_SIZE - 1) |-> IF i < n THEN buf[i] ELSE 0]

Received(n, buf) == [usb_ok |-> TRUE, n |-> n, buf |-> Truncated(buf, n)]

UsbFailure == [usb_ok |-> FALSE, n |-> 0, buf |-> [i \in 0..(RECEIVE_SIZE - 1) |-> 0]]

ReplyCont29 == MkReply(\H80, \H35, 0, 0, 29, \H0A, 0, \H00)

ReplyDie2990 == MkReply(\H80, \H35, 0, 0, 29, \H0B, 90, \H06)

ReplyNoMedia == MkReply(\H80, \H35, \H01, 0, 0, \H00, 0, \H02)

ReplyCompleted == MkReply(\H80, \H35, 0, 0, 12, \H0A, 0, \H01)

ReplyBadMarker == MkReply(\H00, \H35, 0, 0, 29, \H0A, 0, \H01)

ReplyUnknownMedia == MkReply(\H80, \H35, 0, 0, 99, \H0A, 0, \H00)

\* What one read_bulk on the IN endpoint can produce.
RxOutcomes ==
    {Received(RECEIVE_SIZE, ReplyCont29), Received(RECEIVE_SIZE, ReplyDie2990),
     Received(RECEIVE_SIZE, ReplyNoMedia), Received(RECEIVE_SIZE, ReplyCompleted),
     Received(RECEIVE_SIZE, ReplyBadMarker), Received(RECEIVE_SIZE - 1, ReplyCompleted),
     Received(RECEIVE_SIZE, ReplyUnknownMedia),
     UsbFailure}

-----------------------------------------------------------------------------
(* The transport log *)

WriteEvent(site, data, ok) ==
    [op |-> "write", site |-> site, ok |-> ok, n |-> Len(data), data |-> data]

ReadEvent(site, o) ==
    [op |-> "read", site |-> site, ok |-> o.usb_ok, n |-> o.n, data |-> o.buf]

\* The outcome of read_bulk recorded in a read event.
OutcomeOf(ev) == [usb_ok |-> ev.ok, n |-> ev.n, buf |-> ev.data]

-----------------------------------------------------------------------------
(* printer.rs: print and print_blocking, one action per transport operation *)

Init ==
    /\ pc = "idle"
    /\ entry = "none"
    /\ raster_lines = <<>>
    /\ log = <<>>
    /\ status = None
    /\ label = None
    /\ line_idx = 0
    /\ print_ret = NotReturned
    /\ blocking_ret = NotReturned
    /\ polls = 0
    /\ rx = None
    /\ decoded = NotReturned
    /\ call = None
    /\ ret = NotReturned

CallPrint ==
    /\ pc = "idle"
    /\ \E lines \in RasterInputs : raster_lines' = lines
    /\ entry' = "print"
    /\ pc' = "get_status_write"
    /\ UNCHANGED <<log, status, label, line_idx, print_ret, blocking_ret, polls, decVars, fnVars>>

CallPrintBlocking ==
    /\ pc = "idle"
    /\ \E lines \in RasterInputs : raster_lines' = lines
    /\ entry' = "print_blocking"
    /\ pc' = "get_status_write"
    /\ UNCHANGED <<log, status, label, line_idx, print_ret, blocking_ret, polls, decVars, fnVars>>

\* print returns r; under print_blocking the `?` forwards an error and an Ok
\* value is dropped before the loop starts.
PrintReturn(r) ==
    /\ print_ret' = r
    /\ IF entry = "print"
       THEN pc' = "done" /\ UNCHANGED blocking_ret
       ELSE IF r.ok
            THEN pc' = "poll" /\ UNCHANGED blocking_ret
            ELSE pc' = "done" /\ blocking_ret' = Err(r.err)

Continue(next) ==
    /\ pc' = next
    /\ UNCHANGED <<print_ret, blocking_ret>>

\* The statement order of print: the transport operation that follows `at`.
after_cut_first(at) ==
    CASE at = "get_status_write"    -> "get_status_read"
      [] at = "get_status_read"     -> "mode_write"
      [] at = "mode_write"          -> "media_write"
      [] at = "media_write"         -> "cut_settings_write"
      [] at = "cut_settings_write"  -> "auto_cut_write"
      [] at = "auto_cut_write"      -> "current_label_write"
      [] at = "current_label_write" -> "current_label_read"
      [] at = "current_label_read"  -> "margins_write"
      [] at = "print_write"         -> "final_read"

after(at) ==
    CASE at = "get_status_write"    -> "get_status_read"
      [] at = "get_status_read"     -> "mode_write"
      [] at = "mode_write"          -> "media_write"
      [] at = "media_write"         -> "auto_cut_write"
      [] at = "auto_cut_write"      -> "cut_settings_write"
      [] at = "cut_settings_write"  -> "current_label_write"
      [] at = "current_label_write" -> "current_label_read"
      [] at = "current_label_read"  -> "margins_write"
      [] at = "print_write"         -> "final_read"

\* for line in raster_lines.iter(): after `done` lines are written, either the
\* next line or the trigger.
raster_next(lines, done) ==
    IF done >= Len(lines) THEN "print_write" ELSE "raster_write"

\* the element the iterator yields after `done` elements
iter_line_rev(lines, done) == lines[Len(lines) - done]

iter_line(lines, done) == lines[done + 1]

\* a write whose result is dropped
WriteThen_unchecked(at, site, data, next) ==
    /\ pc = at
    /\ \E ok \in BOOLEAN :
         /\ log' = Append(log, WriteEvent(site, data, ok))
         /\ Continue(next)

\* self.write(data)?  at position `at`, then on to `next`.
WriteThen(at, site, data, next) ==
    /\ pc = at
    /\ \E ok \in BOOLEAN :
         /\ log' = Append(log, WriteEvent(site, data, ok))
         /\ IF ok THEN Continue(next) ELSE PrintReturn(Err("USB"))

\* let status = self.get_status()?;   (the write half)
PrintGetStatusWrite ==
    /\ WriteThen("get_status_write", "get_status", status_command, after(pc))
    /\ UNCHANGED <<entry, raster_lines, status, label, line_idx, polls, decVars, fnVars>>

\* let status = self.get_status()?;   (the read half)
PrintGetStatusRead ==
    /\ pc = "get_status_read"
    /\ \E o \in RxOutcomes :
         /\ log' = Append(log, ReadEvent("get_status", o))
         /\ IF read(o).ok
            THEN status' = read(o).val /\ Continue(after(pc))
            ELSE UNCHANGED status /\ PrintReturn(read(o))
    /\ UNCHANGED <<entry, raster_lines, label, line_idx, polls, decVars, fnVars>>

\* self.write(&mode_command)?; followed by the match on the media type.
PrintModeWrite ==
    /\ pc = "mode_write"
    /\ \E ok \in BOOLEAN :
         /\ log' = Append(log, WriteEvent("print", mode_command, ok))
         /\ IF ~ok THEN PrintReturn(Err("USB"))
            ELSE IF ~media_type_code(status.media.media_type).some
                 THEN PrintReturn(Err("No media loaded into printer"))
                 ELSE Continue(after(pc))
    /\ UNCHANGED <<entry, raster_lines, status, label, line_idx, polls, decVars, fnVars>>

PrintMediaWrite ==
    /\ WriteThen("media_write", "print",
                 media_command(media_type_code(status.media.media_type).val,
                               status.media, raster_lines),
                 after(pc))
    /\ UNCHANGED <<entry, raster_lines, status, label, line_idx, polls, decVars, fnVars>>

PrintAutoCutWrite ==
    /\ WriteThen("auto_cut_write", "print", auto_cut_command, after(pc))
    /\ UNCHANGED <<entry, raster_lines, status, label, line_idx, polls, decVars, fnVars>>

PrintCutSettingsWrite ==
    /\ WriteThen("cut_settings_write", "print", cut_settings_command, after(pc))
    /\ UNCHANGED <<entry, raster_lines, status, label, line_idx, polls, decVars, fnVars>>

\* let label = self.current_label()?;   (get_status: the write half)
CurrentLabelWrite ==
    /\ WriteThen("current_label_write", "current_label", status_command, after(pc))
    /\ UNCHANGED <<entry, raster_lines, status, label, line_idx, polls, decVars, fnVars>>

\* a lookup that panics on a miss, as Media::to_label does
current_label_expect(r) ==
    IF ~r.ok THEN r
    ELSE LET media == r.val.media
             found == label_data(media.width,
                                 IF media.length = 0 THEN None ELSE Some(media.length))
         IN IF found.some THEN Ok(found.val)
            ELSE [ok |-> FALSE, err |-> "panic: Printer reported invalid label dimensions"]

\* current_label on a decoded reply r
current_label(r) ==
    IF ~r.ok THEN r
    ELSE LET media == r.val.media
             found == label_data(media.width,
                                 IF media.length = 0 THEN None ELSE Some(media.length))
         IN IF found.some THEN Ok(found.val)
            ELSE Err("Unknown media loaded in printer")

\* let label = self.current_label()?;   (the read half and the table lookup)
CurrentLabelRead ==
    /\ pc = "current_label_read"
    /\ \E o \in RxOutcomes :
         /\ log' = Append(log, ReadEvent("current_label", o))
         /\ IF current_label(read(o)).ok
            THEN label' = current_label(read(o)).val /\ Continue(after(pc))
            ELSE UNCHANGED label /\ PrintReturn(current_label(read(o)))
    /\ UNCHANGED <<entry, raster_lines, status, line_idx, polls, decVars, fnVars>>

\* self.write(&margins_command)?; and entry into the raster loop
PrintMarginsWrite ==
    /\ WriteThen("margins_write", "print", margins_command(label),
                 raster_next(raster_lines, 0))
    /\ line_idx' = 0
    /\ UNCHANGED <<entry, raster_lines, status, label, polls, decVars, fnVars>>

\* one iteration of: for line in raster_lines.iter() { ... self.write(&raster_command)?; }
PrintRasterWrite ==
    /\ WriteThen("raster_write", "print",
                 raster_command(iter_line(raster_lines, line_idx)),
                 raster_next(raster_lines, line_idx + 1))
    /\ line_idx' = line_idx + 1
    /\ UNCHANGED <<entry, raster_lines, status, label, polls, decVars, fnVars>>

\* self.write(&print_command)?;
PrintTriggerWrite ==
    /\ WriteThen("print_write", "print", print_command, after(pc))
    /\ UNCHANGED <<entry, raster_lines, status, label, line_idx, polls, decVars, fnVars>>

\* self.read()   -- the value of print
PrintFinalRead ==
    /\ pc = "final_read"
    /\ \E o \in RxOutcomes :
         /\ log' = Append(log, ReadEvent("print", o))
         /\ PrintReturn(read(o))
    /\ UNCHANGED <<entry, raster_lines, status, label, line_idx, polls, decVars, fnVars>>

\* Ok(ref response) if response.status_type == PrintingCompleted
poll_done_any_ok(r) == r.ok

poll_done(r) == r.ok /\ r.val.status_type = "PrintingCompleted"

\* the transport operations of one iteration: `match self.read()`
poll_io_query(o) ==
    <<WriteEvent("print_blocking", status_command, TRUE), ReadEvent("print_blocking", o)>>

poll_io(o) == <<ReadEvent("print_blocking", o)>>

\* one iteration of print_blocking's loop: self.read(), then break or sleep
PollRead ==
    /\ pc = "poll"
    /\ polls < MaxPolls
    /\ \E o \in RxOutcomes :
         /\ log' = log \o poll_io(o)
         /\ IF poll_done(read(o))
            THEN /\ blocking_ret' = Ok(Unit)
                 /\ pc' = "done"
                 /\ UNCHANGED polls
            ELSE /\ polls' = polls + 1      \* thread::sleep(50 ms)
                 /\ UNCHANGED <<pc, blocking_ret>>
    /\ UNCHANGED <<entry, raster_lines, status, label, line_idx, print_ret, decVars, fnVars>>

Next ==
    \/ CallPrint
    \/ CallPrintBlocking
    \/ PrintGetStatusWrite
    \/ PrintGetStatusRead
    \/ PrintModeWrite
    \/ PrintMediaWrite
    \/ PrintAutoCutWrite
    \/ PrintCutSettingsWrite
    \/ CurrentLabelWrite
    \/ CurrentLabelRead
    \/ PrintMarginsWrite
    \/ PrintRasterWrite
    \/ PrintTriggerWrite
    \/ PrintFinalRead
    \/ PollRead

Spec == Init /\ [][Next]_vars

-----------------------------------------------------------------------------
(* Reading the transport log *)

IsWrite(ev) == ev.op = "write"

IsRead(ev) == ev.op = "read"

IsStatusRequest(ev) == IsWrite(ev) /\ ev.data = <<27, 105, 83>>          \* 1B 69 53

\* The commands written other than status requests, in order.
ProtocolCommands ==
    LET w == SelectSeq(log, LAMBDA ev : IsWrite(ev) /\ ~IsStatusRequest(ev))
    IN [i \in 1..Len(w) |-> w[i].data]

HasPrefix(d, p) == Len(d) >= Len(p) /\ SubSeq(d, 1, Len(p)) = p

IsModeSelect(d) == d = <<27, 105, 97, 1>>                                 \* 1B 69 61 01

IsMediaDescriptor(d) == HasPrefix(d, <<27, 105, 122>>)                    \* 1B 69 7A ...

IsAutoCut(d) == d = <<27, 105, 77, 64>>                                   \* 1B 69 4D 40

IsCutSettings(d) == d = <<27, 105, 75, 8>>                                \* 1B 69 4B 08

IsMargins(d) == Len(d) = 5 /\ HasPrefix(d, <<27, 105, 100>>) /\ d[5] = 0  \* 1B 69 64 fm 00

IsRasterLine(d) == HasPrefix(d, <<103, 0, 90>>)                           \* 67 00 5A ...

IsTrigger(d) == d = <<26>>                                                \* 1A

\* Positions of the log holding a write of the trigger byte.
TriggerPositions == {i \in 1..Len(log) : IsWrite(log[i]) /\ IsTrigger(log[i].data)}

\* The commands written after the first five protocol commands, trigger excluded.
CommandsAfterMargins ==
    LET c == ProtocolCommands
    IN SelectSeq(SubSeq(c, 6, Len(c)), LAMBDA d : ~IsTrigger(d))

\* A reply that was received whole, carries the marker and has status type t.
IsReplyOfType(ev, t) ==
    IsRead(ev) /\ ev.ok /\ ev.n = 32 /\ ev.data[0] = 128 /\ ev.data[18] = t

\* A read that delivered a well-formed reply of a status type other than
\* PrintingCompleted (0x01).
IsOtherReply(ev) ==
    IsRead(ev) /\ ev.ok /\ ev.n = 32 /\ ev.data[0] = 128 /\ ev.data[18] # 1

ReturnedNoMedia == print_ret = Err("No media loaded into printer")

-----------------------------------------------------------------------------
(* Claims about print and print_blocking, checked under Spec *)

\* C1 (as stated): when print returns the no-media error, no command other than
\* the status request has been written to the transport.
C1_NoMediaLeavesDeviceUnmodified ==
    ReturnedNoMedia => \A i \in 1..Len(log) : IsWrite(log[i]) => IsStatusRequest(log[i])

\* C2: when print has returned Ok, the commands other than status requests are,
\* in order, mode-select, media descriptor, auto-cut, cut-settings, margins with
\* the label's feed margin, raster lines only, trigger; the trigger is the last
\* write, the one read of print after it is the next operation, and the value
\* returned is the decoding of that read.
C2_CommandOrder ==
    print_ret.ok =>
        LET c == ProtocolCommands
            n == Len(c)
            t == CHOOSE i \in TriggerPositions : TRUE
        IN /\ n >= 6
           /\ IsModeSelect(c[1])
           /\ IsMediaDescriptor(c[2])
           /\ IsAutoCut(c[3])
           /\ IsCutSettings(c[4])
           /\ IsMargins(c[5]) /\ c[5][4] = label.feed_margin
           /\ \A k \in 6..(n - 1) : IsRasterLine(c[k])
           /\ IsTrigger(c[n])
           /\ Cardinality(TriggerPositions) = 1
           /\ \A i \in (t + 1)..Len(log) : IsRead(log[i])
           /\ Len(log) > t /\ log[t + 1].site = "print"
           /\ \A i \in (t + 2)..Len(log) : log[i].site = "print_blocking"
           /\ print_ret.val.status_type =
                 decode_status_type(log[t + 1].data[18])
           /\ print_ret = read(OutcomeOf(log[t + 1]))

C2_Witness ==
    /\ pc = "done" /\ entry = "print" /\ print_ret.ok
    /\ Len(raster_lines) = 2
    /\ print_ret.val.status_type = "PhaseChange"

\* C3: once the trigger has been written, bytes 7..10 of the media descriptor
\* are the little-endian count N of the raster lines given to print and exactly
\* N raster-line commands lie between the margins command and the trigger; for
\* N = 0 the field is 00 00 00 00 and the margins command directly precedes the
\* trigger.
C3_LineCount ==
    TriggerPositions # {} =>
        LET c == ProtocolCommands
            N == Len(raster_lines)
            field == SubSeq(c[2], 8, 11)
        IN /\ Len(c[2]) = 13
           /\ field[1] + 256 * field[2] + 65536 * field[3] + 16777216 * field[4] = N
           /\ Len(c) = N + 6
           /\ IsMargins(c[5]) /\ IsTrigger(c[N + 6])
           /\ \A k \in 6..(N + 5) : IsRasterLine(c[k])
           /\ (N = 0 => field = <<0, 0, 0, 0>> /\ IsTrigger(c[6]))

C3_Witness ==
    /\ TriggerPositions # {}
    /\ Len(raster_lines) = 2
    /\ SubSeq(ProtocolCommands[2], 8, 11) = <<2, 0, 0, 0>>

\* C4: the k-th command written after the margins command is 67 00 5A followed
\* by the 90 bytes of the k-th input line, and once the trigger is written there
\* are as many of them as input lines.
C4_RasterOrder ==
    LET r == CommandsAfterMargins
    IN /\ Len(r) <= Len(raster_lines)
       /\ \A k \in 1..Len(r) :
             /\ Len(r[k]) = 93
             /\ SubSeq(r[k], 1, 3) = <<103, 0, 90>>
             /\ SubSeq(r[k], 4, 93) = raster_lines[k]
       /\ (TriggerPositions # {} => Len(r) = Len(raster_lines))

C4_Witness ==
    /\ TriggerPositions # {}
    /\ raster_lines = <<LineInk, LineBlank>>
    /\ Len(CommandsAfterMargins) = 2

\* C5: print_blocking has returned Ok only if print returned Ok and the last
\* transport operation is a read of the completion loop that delivered a reply
\* of status type PrintingCompleted; and a loop read delivering a well-formed
\* reply of any other status type leaves print_blocking in the loop, not returned.
C5_OkOnlyAfterCompleted ==
    blocking_ret.ok =>
        /\ print_ret.ok
        /\ Len(log) > 0
        /\ log[Len(log)].site = "print_blocking"
        /\ IsReplyOfType(log[Len(log)], 1)

C5_OtherStatusPollsAgain ==
    (pc = "poll" /\ Len(log') > Len(log) /\ IsOtherReply(log'[Len(log')]))
        => (pc' = "poll" /\ blocking_ret' = NotReturned)

C5_BlockingCompletion == [](C5_OkOnlyAfterCompleted) /\ [][C5_OtherStatusPollsAgain]_vars

C5_Witness ==
    /\ blocking_ret.ok
    /\ \E i \in 1..Len(log) :
          /\ log[i].site = "print_blocking"
          /\ IsReplyOfType(log[i], 2)         \* an ErrorOccurred reply was polled

\* C6 (as stated): every read of the completion loop is directly preceded by a
\* write of the status-request command.
C6_PollReadFollowsStatusRequest ==
    \A i \in 1..Len(log) :
        (IsRead(log[i]) /\ log[i].site = "print_blocking")
            => (i > 1 /\ IsStatusRequest(log[i - 1]))

\* C6 (amended): the completion loop only reads: every transport operation of
\* print_blocking's loop is a read, directly preceded by another read (print's
\* read after the trigger, or the previous loop read), so no status request is
\* written after the trigger.
C6_PollOnlyReads ==
    \A i \in 1..Len(log) :
        log[i].site = "print_blocking"
            => /\ IsRead(log[i])
               /\ i > 1 /\ IsRead(log[i - 1])
               /\ \A j \in 1..Len(log) : IsStatusRequest(log[j]) => j < i

C6_Witness ==
    /\ polls = 2
    /\ Len(SelectSeq(log, LAMBDA ev : ev.site = "print_blocking")) = 2

\* C7 (as stated): a failed transport read in the completion loop ends
\* print_blocking with an error.
C7_PollReadFailureSurfaced ==
    [][(pc = "poll" /\ Len(log') > Len(log) /\ ~log'[Len(log')].ok)
          => (pc' = "done" /\ ~blocking_ret'.ok /\ blocking_ret' # NotReturned)]_vars

-----------------------------------------------------------------------------
(* SpecDecode: `read` applied to the outcomes of one read_bulk *)

ModelBytes == {\H4F, \H31, \H32, \H33, \H51, \H35, \H50, \H34, \H00, \H36, \HFF}

MediaTypeBytes == {\H0A, \H0B, \H00, \H0C, \HFF}

StatusTypeBytes == {\H00, \H01, \H02, \H03, \H04, \H05, \H06, \H07, \HFF}

WidthBytes == {0, 12, 29, 62, 255}

LengthBytes == {0, 90, 255}

MarkerBytes == {\H80, \H00, \H81, \H7F, \HFF}

ReceivedSizes == {0, 1, RECEIVE_SIZE - 1, RECEIVE_SIZE}

ErrorBytesSome == {\H00, \H01, \H81, \H97, \H68, \HD4, \H2B, \HFF}

\* Replies that differ in the model, media and status bytes.
FieldReplies ==
    {MkReply(\H80, m, 0, 0, w, mt, l, st) :
        m \in ModelBytes, w \in WidthBytes, mt \in MediaTypeBytes,
        l \in LengthBytes, st \in StatusTypeBytes}

\* Replies that differ in the two error bytes.
ErrorReplies ==
    {MkReply(\H80, \H35, e8, e9, 29, \H0A, 0, \H02) : e8 \in Byte, e9 \in ErrorBytesSome}
    \cup
    {MkReply(\H80, \H35, e8, e9, 29, \H0A, 0, \H02) : e8 \in ErrorBytesSome, e9 \in Byte}

\* Replies that differ in the marker byte.
MarkerReplies ==
    {MkReply(mk, m, e8, 0, 62, mt, 100, st) :
        mk \in MarkerBytes, m \in {\H35, \H00}, e8 \in {\H00, \H81},
        mt \in {\H0B, \H00}, st \in {\H01, \H02}}

DecodeInputs ==
    {Received(RECEIVE_SIZE, b) : b \in FieldReplies \cup ErrorReplies}
    \cup {Received(n, b) : n \in ReceivedSizes, b \in MarkerReplies}
    \cup {UsbFailure}

InitDecode ==
    /\ pc = "idle"
    /\ entry = "none"
    /\ raster_lines = <<>>
    /\ log = <<>>
    /\ status = None
    /\ label = None
    /\ line_idx = 0
    /\ print_ret = NotReturned
    /\ blocking_ret = NotReturned
    /\ polls = 0
    /\ rx = None
    /\ decoded = NotReturned
    /\ call = None
    /\ ret = NotReturned

\* self.handle.read_bulk(...) returns
ReadBulk ==
    /\ rx = None
    /\ \E o \in DecodeInputs : rx' = Some(o)
    /\ UNCHANGED <<decoded, seqVars, fnVars>>

\* the rest of `read`
Decode ==
    /\ rx.some
    /\ decoded = NotReturned
    /\ decoded' = read(rx.val)
    /\ UNCHANGED <<rx, seqVars, fnVars>>

NextDecode ==
    \/ ReadBulk
    \/ Decode

SpecDecode == InitDecode /\ [][NextDecode]_vars

-----------------------------------------------------------------------------
(* Claims about status decoding, checked under SpecDecode *)

Returned == rx.some /\ decoded # NotReturned

WellFormed == rx.some /\ rx.val.usb_ok /\ rx.val.n = 32 /\ rx.val.buf[0] = 128

\* C8: a reply of which fewer (or more) than 32 bytes were received, or whose
\* byte 0 is not 0x80, decodes to the invalid-response error and to no status
\* value, whatever the other bytes are.
C8_MalformedRejected ==
    (Returned /\ rx.val.usb_ok /\ (rx.val.n # 32 \/ rx.val.buf[0] # 128))
        => /\ ~decoded.ok
           /\ DOMAIN decoded = {"ok", "err"}
           /\ decoded.err = "Invalid response received from printer"

C8_Witness ==
    /\ Returned /\ rx.val.usb_ok
    /\ rx.val.n = 31 /\ rx.val.buf[0] = 128 /\ rx.val.buf[18] = 1
    /\ ~decoded.ok

\* C9: every 32-byte reply whose byte 0 is 0x80 decodes successfully: a model
\* byte outside the table gives "Unknown", a media-type byte other than
\* 0x0A/0x0B gives media kind None, a status-type byte other than 0x00, 0x01,
\* 0x02, 0x05, 0x06 gives Notification, and width and length are bytes 10 and 17.
C9_WellFormedDecodes ==
    (Returned /\ WellFormed) =>
        LET b == rx.val.buf
            v == decoded.val
        IN /\ decoded.ok
           /\ (b[4] \notin {79, 49, 50, 51, 81, 53, 80, 52} => v.model = "Unknown")
           /\ (b[4] = 53 => v.model = "QL-700")
           /\ (b[11] = 10 => v.media.media_type = "ContinuousTape")
           /\ (b[11] = 11 => v.media.media_type = "DieCutLabels")
           /\ (b[11] \notin {10, 11} => v.media.media_type = "None")
           /\ (b[18] = 0 => v.status_type = "ReplyToStatusRequest")
           /\ (b[18] = 1 => v.status_type = "PrintingCompleted")
           /\ (b[18] = 2 => v.status_type = "ErrorOccurred")
           /\ (b[18] = 6 => v.status_type = "PhaseChange")
           /\ (b[18] \notin {0, 1, 2, 6} => v.status_type = "Notification")
           /\ v.media.width = b[10]
           /\ v.media.length = b[17]

C9_Witness ==
    /\ Returned /\ WellFormed /\ decoded.ok
    /\ rx.val.buf[4] = 255 /\ rx.val.buf[11] = 12 /\ rx.val.buf[18] = 7
    /\ rx.val.buf[10] = 62 /\ rx.val.buf[17] = 90

\* The catalog of error flags: <<byte offset, flag, description>>, in order.
ErrorCatalog ==
    << <<8, 1,   "No media when printing">>,
       <<8, 2,   "End of media">>,
       <<8, 4,   "Tape cutter jam">>,
       <<8, 16,  "Main unit in use">>,
       <<8, 128, "Fan doesn't work">>,
       <<9, 4,   "Transmission error">>,
       <<9, 16,  "Cover open">>,
       <<9, 64,  "Cannot feed">>,
       <<9, 128, "System error">> >>

FlagSet(byte, flag) == (byte \div flag) % 2 = 1

\* The descriptions of the catalog flags set in buffer b, in catalog order.
ExpectedErrors(b) ==
    LET hit == SelectSeq(ErrorCatalog, LAMBDA c : FlagSet(b[c[1]], c[2]))
    IN [i \in 1..Len(hit) |-> hit[i][3]]

\* C10: the decoded error list is exactly the descriptions of the set catalog
\* flags in catalog order (byte 8: 0x01, 0x02, 0x04, 0x10, 0x80, then byte 9:
\* 0x04, 0x10, 0x40, 0x80), without duplicates; bits outside the catalog add
\* nothing; byte 8 = 0x81 alone gives <<"No media when printing",
\* "Fan doesn't work">>; no flag gives the empty list.
C10_ErrorList ==
    (Returned /\ WellFormed) =>
        LET b == rx.val.buf
            e == decoded.val.errors
        IN /\ e = ExpectedErrors(b)
           /\ \A i, j \in 1..Len(e) : e[i] = e[j] => i = j
           /\ ((b[8] = 129 /\ b[9] = 0)
                  => e = <<"No media when printing", "Fan doesn't work">>)
           /\ ((b[8] = 0 /\ b[9] = 0) => e = <<>>)
           /\ ((b[8] = 104 /\ b[9] = 43) => e = <<>>)   \* only bits outside the catalog

C10_Witness ==
    /\ Returned /\ WellFormed /\ decoded.ok
    /\ rx.val.buf[8] = 129 /\ rx.val.buf[9] = 0
    /\ Len(decoded.val.errors) = 2

-----------------------------------------------------------------------------
(* SpecLabel: current_label called on its own *)

\* What the device can report as loaded media.
LabelWidthBytes == Byte

LabelLengthBytes == {0, 1, 23, 29, 42, 48, 54, 87, 90, 100, 255}

LabelReplies ==
    {MkReply(\H80, \H35, 0, 0, w, mt, l, \H00) :
        w \in LabelWidthBytes, l \in LabelLengthBytes, mt \in {\H0A, \H0B, \H00}}

LabelOutcomes ==
    {Received(RECEIVE_SIZE, b) : b \in LabelReplies}
    \cup {Received(RECEIVE_SIZE, ReplyBadMarker), Received(RECEIVE_SIZE - 1, ReplyCont29),
          UsbFailure}

\* get_status: self.write(&status_command)?; self.read()
get_status(write_ok, o) == IF ~write_ok THEN Err("USB") ELSE read(o)

\* the transport operations of one get_status
get_status_io(site, write_ok, o) ==
    IF ~write_ok THEN <<WriteEvent(site, status_command, FALSE)>>
    ELSE <<WriteEvent(site, status_command, TRUE), ReadEvent(site, o)>>

InitLabel ==
    /\ pc = "idle"
    /\ entry = "none"
    /\ raster_lines = <<>>
    /\ log = <<>>
    /\ status = None
    /\ label = None
    /\ line_idx = 0
    /\ print_ret = NotReturned
    /\ blocking_ret = NotReturned
    /\ polls = 0
    /\ rx = None
    /\ decoded = NotReturned
    /\ call = None
    /\ ret = NotReturned

\* one call of current_label
CallCurrentLabel ==
    /\ call = None
    /\ \E write_ok \in BOOLEAN, o \in LabelOutcomes :
         /\ call' = Some([fn |-> "current_label",
                          io |-> get_status_io("current_label", write_ok, o)])
         /\ ret' = current_label(get_status(write_ok, o))
    /\ UNCHANGED <<seqVars, decVars>>

NextLabel == CallCurrentLabel

SpecLabel == InitLabel /\ [][NextLabel]_vars

\* The keys of the two tables of label_data.
DieCutKeys ==
    {<<17, 54>>, <<17, 87>>, <<23, 23>>, <<29, 42>>, <<29, 90>>, <<39, 90>>,
     <<39, 48>>, <<52, 29>>, <<62, 29>>, <<62, 100>>}

ContinuousKeys == {12, 29, 38, 50, 54, 62, 102}

\* The reply a finished current_label call read, when it read a well-formed one.
LabelCallReadReply ==
    /\ call.some /\ Len(call.val.io) = 2
    /\ IsReplyOfType(call.val.io[2], call.val.io[2].data[18])

\* C11: current_label writes one status request and reads one reply; on a
\* well-formed reply with width w and length l it looks up (w, None) when l = 0
\* and (w, Some(l)) otherwise, whatever the media-type byte: it returns that
\* entry of the table when there is one and otherwise the error "Unknown media
\* loaded in printer" (an error value, never a panic).
C11_CurrentLabel ==
    call.some =>
        LET io == call.val.io IN
        /\ IsStatusRequest(io[1])
        /\ \A i \in 2..Len(io) : IsRead(io[i])
        /\ Len(io) <= 2
        /\ (io[1].ok => Len(io) = 2)
        /\ (ret.ok \/ ret.err \in {"USB", "Invalid response received from printer",
                                  "Unknown media loaded in printer"})
        /\ LabelCallReadReply =>
             LET w == io[2].data[10]
                 l == io[2].data[17]
                 known == IF l = 0 THEN w \in ContinuousKeys ELSE <<w, l>> \in DieCutKeys
             IN IF known
                THEN /\ ret.ok
                     /\ ret.val = label_data(w, IF l = 0 THEN None ELSE Some(l)).val
                     /\ ret.val.feed_margin = (IF l = 0 THEN 35 ELSE 0)
                ELSE ret = Err("Unknown media loaded in printer")

\* a die-cut media-type byte with length 0 resolved to the continuous entry
C11_Witness ==
    /\ LabelCallReadReply
    /\ call.val.io[2].data[11] = 11 /\ call.val.io[2].data[17] = 0
    /\ call.val.io[2].data[10] = 12
    /\ ret.ok /\ ret.val.dots_printable = <<106, 0>>

-----------------------------------------------------------------------------
(* SpecMedia: the media descriptor print builds, for line counts of the whole
   u32 range *)

\* 16-bit halves of the line counts explored
HalfValues == {0, 1, 2, 255, 256, 257, 32767, 32768, 65534, 65535}

MediaInputs ==
    [media_type : {"ContinuousTape", "DieCutLabels"},
     width      : {0, 12, 29, 62, 255},
     length     : {0, 90, 255}]

InitMedia ==
    /\ pc = "idle"
    /\ entry = "none"
    /\ raster_lines = <<>>
    /\ log = <<>>
    /\ status = None
    /\ label = None
    /\ line_idx = 0
    /\ print_ret = NotReturned
    /\ blocking_ret = NotReturned
    /\ polls = 0
    /\ rx = None
    /\ decoded = NotReturned
    /\ call = None
    /\ ret = NotReturned

\* lines 158-167 of print for a status reporting `media` and a Vec of `count` lines
BuildMediaCommand ==
    /\ call = None
    /\ \E media \in MediaInputs, hi \in HalfValues, lo \in HalfValues :
         /\ call' = Some([fn |-> "media_command", media |-> media, count |-> <<hi, lo>>])
         /\ ret' = Ok(media_command_of(media_type_code(media.media_type).val, media,
                                       to_le_bytes(<<hi, lo>>)))
    /\ UNCHANGED <<seqVars, decVars>>

NextMedia == BuildMediaCommand

SpecMedia == InitMedia /\ [][NextMedia]_vars

\* C12: the media descriptor is 13 bytes, starts with 1B 69 7A, and its bytes
\* 7..10 read back as a little-endian u32 give the line count N (compared by
\* 16-bit halves), for N over the whole u32 range and in particular 0, 1 and
\* 65535; bytes 4, 5, 6 are the media-type code (0x0A continuous, 0x0B die-cut),
\* the reported width and the reported length.
C12_MediaDescriptor ==
    call.some =>
        LET d == ret.val
            N == call.val.count
            m == call.val.media
        IN /\ ret.ok
           /\ Len(d) = 13
           /\ \A i \in 1..13 : d[i] \in Byte
           /\ SubSeq(d, 1, 3) = <<27, 105, 122>>
           /\ d[8] + 256 * d[9] = N[2]
           /\ d[10] + 256 * d[11] = N[1]
           /\ (N = <<0, 0>> => SubSeq(d, 8, 11) = <<0, 0, 0, 0>>)
           /\ (N = <<0, 1>> => SubSeq(d, 8, 11) = <<1, 0, 0, 0>>)
           /\ (N = <<0, 65535>> => SubSeq(d, 8, 11) = <<255, 255, 0, 0>>)
           /\ d[5] = (IF m.media_type = "ContinuousTape" THEN 10 ELSE 11)
           /\ d[6] = m.width
           /\ d[7] = m.length

C12_Witness ==
    /\ call.some /\ ret.ok
    /\ call.val.count = <<0, 65535>>
    /\ call.val.media = [media_type |-> "DieCutLabels", width |-> 29, length |-> 90]
    /\ Len(ret.val) = 13

-----------------------------------------------------------------------------
(* text.rs: image_to_raster_lines and the canvas rasterize hands to it *)

MaxColumns == 2    \* columns (canvas length) converted per call
MaxRows == 8       \* rows of the canvases whose pixels are enumerated

\* u8 | u8
RECURSIVE BitOr(_, _)
BitOr(a, b) ==
    IF a = 0 THEN b
    ELSE IF b = 0 THEN a
    ELSE (IF a % 2 = 1 \/ b % 2 = 1 THEN 1 ELSE 0) + 2 * BitOr(a \div 2, b \div 2)

Pow2(k) == CASE k = 0 -> 1 [] k = 1 -> 2 [] k = 2 -> 4 [] k = 3 -> 8
             [] k = 4 -> 16 [] k = 5 -> 32 [] k = 6 -> 64 [] k = 7 -> 128

\* u8 << k, for 0 <= k <= 7
Shl(v, k) == (v * Pow2(k)) % 256

Panic(msg) == [ok |-> FALSE, err |-> msg]

\* A GrayImage of w x h pixels, row-major in px; px = <<>> stands for the buffer
\* whose w * h pixels all hold `fill`.
GrayImage(w, h, fill, px) == [w |-> w, h |-> h, fill |-> fill, px |-> px]

image_len(image) == image.w * image.h

get_pixel(image, x, y) ==
    IF image.px = <<>> THEN image.fill ELSE image.px[y * image.w + x + 1]

\* let mut line = [0; 90];
new_line == [i \in 0..89 |-> 0]

\* let mut line_bit_index: i8 = 3;
FIRST_BIT_INDEX == 3

\* line_bit_index -= 1; if line_bit_index < 0 { line_byte += 1; line_bit_index += 8; }
next_slot_no_carry(line_byte, line_bit_index) ==
    LET b == line_bit_index - 1
    IN IF b < 0 THEN <<line_byte, b + 8>> ELSE <<line_byte, b>>

next_slot(line_byte, line_bit_index) ==
    LET b == line_bit_index - 1
    IN IF b < 0 THEN <<line_byte + 1, b + 8>> ELSE <<line_byte, b>>

\* if luma_pixel[0] > 0xFF / 2 { 0 } else { 1 }
pixel_value_ge(luma) == IF luma >= 255 \div 2 THEN 0 ELSE 1

pixel_value(luma) == IF luma > 255 \div 2 THEN 0 ELSE 1

\* rasterize, lines 125-152: the canvas for a label, white or drawn over; only
\* the first MaxColumns columns of its length are kept.
canvas(l, second_row_image, fill) ==
    LET continuous == l.tape_size[2] = 0
        width == l.dots_printable[1] + l.right_margin
                 + (IF continuous /\ l.tape_size[1] = 12 THEN 25 ELSE 0)
        secondary_width == IF continuous /\ l.tape_size[1] = 12 /\ second_row_image
                           THEN 170 ELSE 0
        length == IF continuous THEN 750 ELSE l.dots_printable[2]
    IN [length |-> length, width |-> width, secondary_width |-> secondary_width,
        image |-> GrayImage(IF length < MaxColumns THEN length ELSE MaxColumns,
                            width + secondary_width, fill, <<>>)]

\* The frame of a running image_to_raster_lines(image, width).
Frame(from, image, width) ==
    [fn |-> "image_to_raster_lines", from |-> from, image |-> image, width |-> width,
     line_count |-> image_len(image) \div width,
     at |-> "column", c |-> 0, r |-> 0,
     line |-> new_line, line_byte |-> 1, line_bit_index |-> FIRST_BIT_INDEX,
     lines |-> <<>>]

\* The labels of the table.
TableLabels ==
    {label_data(k[1], Some(k[2])).val :
        k \in {<<17, 54>>, <<17, 87>>, <<23, 23>>, <<29, 42>>, <<29, 90>>, <<39, 90>>,
               <<39, 48>>, <<52, 29>>, <<62, 29>>, <<62, 100>>}}
    \cup {label_data(w, None).val : w \in {12, 29, 38, 50, 54, 62, 102}}

\* Canvases given pixel by pixel: ink/white canvases of one column and of two
\* columns, two-row canvases over all luma values, and uniform canvases.
PixelCanvases ==
    UNION {{GrayImage(1, h, 255, px) : px \in [1..h -> {0, 255}]} : h \in 1..MaxRows}
    \cup {GrayImage(2, 2, 255, px) : px \in [1..4 -> {0, 255}]}
    \cup {GrayImage(1, 2, 255, <<a, b>>) : a \in 0..255, b \in {0, 127, 128, 255}}
    \cup {GrayImage(w, h, f, <<>>) : w \in 1..MaxColumns, h \in {0, 3, 4, 100}, f \in {0, 255}}

\* image_to_raster_lines called on a canvas of its own
CallImageToRasterLines ==
    /\ call = None
    /\ \E image \in PixelCanvases :
         call' = Some([job |-> None, frame |-> Frame("direct", image, image.w)])
    /\ UNCHANGED <<ret, seqVars, decVars>>

\* u32 values are pairs of 16-bit halves (as_u32).  a - b on u32 as a release
\* build computes it, for a and b below 2^31.
wrapping_sub(a, b) ==
    IF a >= b THEN as_u32(a - b)
    ELSE <<65535 - ((b - a - 1) \div 65536), 65535 - ((b - a - 1) % 65536)>>

\* x > y on u32
gt_u32(x, y) == x[1] > y[1] \/ (x[1] = y[1] /\ x[2] > y[2])

\* let top_margin = 15;
top_margin == 15

\* The (width, height) of the files given as second-row image; their ratios
\* 1, 5 and 0.25 and the products and quotients taken with them are exact in f32.
OverlayShapes == {<<1, 1>>, <<5, 1>>, <<1, 4>>}

\* rasterize, lines 185-193: the size the overlay is resized to.
resized_size(overlay, length, limit) ==
    LET new_width == length
        new_height == (new_width * overlay[2]) \div overlay[1]
    IN IF gt_u32(as_u32(new_height), limit)
       THEN LET h == limit[1] * 65536 + limit[2]
            IN [w |-> (h * overlay[1]) \div overlay[2], h |-> h]
       ELSE [w |-> new_width, h |-> new_height]

\* rasterize up to its call of image_to_raster_lines(&image, length).  With a
\* second-row image and no secondary band, `secondary_width - top_margin`
\* (u32, line 190) overflows: a debug build panics there, a release build wraps
\* and goes on.
Rasterize ==
    /\ call = None
    /\ \E l \in TableLabels, second_row_image \in BOOLEAN, fill \in {0, 255},
          build \in {"debug", "release"}, overlay \in OverlayShapes :
         LET cv == canvas(l, second_row_image, fill)
             overflow == second_row_image /\ cv.secondary_width < top_margin
             panics == overflow /\ build = "debug"
             job == Some([label |-> l, second_row_image |-> second_row_image,
                          length |-> cv.length,
                          width |-> cv.width, secondary_width |-> cv.secondary_width,
                          build |-> IF overflow THEN build ELSE "any",
                          overlay |-> IF second_row_image THEN Some(overlay) ELSE None,
                          resized |-> IF second_row_image /\ ~panics
                                      THEN Some(resized_size(overlay, cv.length,
                                                wrapping_sub(cv.secondary_width, top_margin)))
                                      ELSE None])
         IN IF panics
            THEN /\ call' = Some([job |-> job,
                                  frame |-> [Frame("rasterize", cv.image, cv.image.w)
                                                EXCEPT !.at = "done"]])
                 /\ ret' = Panic("attempt to subtract with overflow")
            ELSE /\ call' = Some([job |-> job,
                                  frame |-> Frame("rasterize", cv.image, cv.image.w)])
                 /\ UNCHANGED ret
    /\ UNCHANGED <<seqVars, decVars>>

Running(at) == call.some /\ ret = NotReturned /\ call.val.frame.at = at

\* for c in 0..width { let mut line = [0; 90]; let mut line_byte = 1; ... }
StartColumn ==
    /\ Running("column")
    /\ call.val.frame.c < call.val.frame.width
    /\ call' = [call EXCEPT !.val.frame.at = "row",
                            !.val.frame.r = 0,
                            !.val.frame.line = new_line,
                            !.val.frame.line_byte = 1,
                            !.val.frame.line_bit_index = FIRST_BIT_INDEX]
    /\ UNCHANGED <<ret, seqVars, decVars>>

\* one iteration of: for r in 0..line_count { ... line[line_byte] |= value << line_bit_index; }
RowStep ==
    /\ Running("row")
    /\ call.val.frame.r < call.val.frame.line_count
    /\ LET f == call.val.frame
           slot == next_slot(f.line_byte, f.line_bit_index)
           value == pixel_value(get_pixel(f.image, f.c, f.r))
       IN IF slot[1] > 89
          THEN /\ ret' = Panic("index out of bounds")
               /\ call' = [call EXCEPT !.val.frame.at = "done",
                                       !.val.frame.line_byte = slot[1],
                                       !.val.frame.line_bit_index = slot[2]]
          ELSE /\ call' = [call EXCEPT
                              !.val.frame.line_byte = slot[1],
                              !.val.frame.line_bit_index = slot[2],
                              !.val.frame.line[slot[1]] = BitOr(@, Shl(value, slot[2])),
                              !.val.frame.r = f.r + 1]
               /\ UNCHANGED ret
    /\ UNCHANGED <<seqVars, decVars>>

\* lines.push(line);
PushLine ==
    /\ Running("row")
    /\ call.val.frame.r = call.val.frame.line_count
    /\ call' = [call EXCEPT !.val.frame.at = "column",
                            !.val.frame.c = @ + 1,
                            !.val.frame.lines = Append(@, call.val.frame.line)]
    /\ UNCHANGED <<ret, seqVars, decVars>>

\* lines
ReturnLines ==
    /\ Running("column")
    /\ call.val.frame.c = call.val.frame.width
    /\ call' = [call EXCEPT !.val.frame.at = "done"]
    /\ ret' = Ok(call.val.frame.lines)
    /\ UNCHANGED <<seqVars, decVars>>

NextRaster ==
    \/ CallImageToRasterLines
    \/ Rasterize
    \/ StartColumn
    \/ RowStep
    \/ PushLine
    \/ ReturnLines

SpecRaster == Init /\ [][NextRaster]_vars

-----------------------------------------------------------------------------
(* Claims about image_to_raster_lines, checked under SpecRaster *)

\* Bit `off` of a raster line, counted from the most significant bit of byte 0.
LineBit(line, off) == (line[off \div 8] \div Pow2(7 - (off % 8))) % 2

LineBits == 0..719

\* 1 for a pixel below the 50% gray point, 0 at or above it.
InkOf(luma) == IF luma >= 128 THEN 0 ELSE 1

Converted == call.some /\ ret.ok

ConvertedImage == call.val.frame.image

\* C13 (as stated): in a finished conversion the bit of row r of column c is at
\* bit offset 12 + r of line c (row 0 at bit 3 of byte 1).
C13_RowBitAtOffset12 ==
    Converted =>
        \A c \in 0..(ConvertedImage.w - 1), r \in 0..(ConvertedImage.h - 1) :
            LineBit(ret.val[c + 1], 12 + r) = InkOf(get_pixel(ConvertedImage, c, r))

C15_Threshold ==
    Converted =>
        \A c \in 0..(ConvertedImage.w - 1), r \in 0..(ConvertedImage.h - 1) :
            LET luma == get_pixel(ConvertedImage, c, r)
                bit == LineBit(ret.val[c + 1], 13 + r)
            IN /\ (luma >= 128 => bit = 0)
               /\ (luma <= 127 => bit = 1)

C15_Witness ==
    /\ Converted
    /\ ConvertedImage.px = <<127, 128>>
    /\ ret.val[1][1] = 4

\* C20 (as stated): converting the canvas rasterize builds for a label of the
\* table never writes beyond byte 89 of the line, and the conversion completes.
C20_ConversionFitsLine ==
    (call.some /\ call.val.job.some)
        => /\ call.val.frame.line_byte <= 89
           /\ ret # Panic("index out of bounds")

-----------------------------------------------------------------------------
(* text.rs: ResizedText::create *)

MaxFontSize == 6   \* largest starting font size explored
MaxWidth == 12     \* largest max_width (canvas length) explored

\* An f32 font size is held in quarters: q stands for q / 4.
\* max_font_size.ceil()
ceil(q) == (q + 3) \div 4

\* The font: the pixel width calc_text_width finds for a text laid out at an
\* integer font size.  A text is given by the shape of that function,
\* base + size * num / den, which never decreases with the size.
TextShapes ==
    [base : {0, 1, 5}, num : {0, 1, 3, 7}, den : {1, 2}]

calc_text_width(text, font_size) == text.base + (font_size * text.num) \div text.den

\* if width < max_width
width_fits_le(width, max_width) == width <= max_width

width_fits(width, max_width) == width < max_width

\* The loop of create from font size font_size on.  The sizes below 0 are not
\* explored: a text that does not fit at size 0 keeps the loop going.
RECURSIVE create_loop(_, _, _)
create_loop(text, max_width, font_size) ==
    LET width == calc_text_width(text, font_size)
    IN IF width_fits(width, max_width)
       THEN Ok([font_size |-> font_size, rendered_width |-> width])
       ELSE IF font_size <= 0
            THEN [ok |-> FALSE, err |-> "<still looping below size 0>"]
            ELSE create_loop(text, max_width, font_size - 1)

create(text, max_width, max_font_size) ==
    create_loop(text, max_width, ceil(max_font_size))

\* one call of ResizedText::create
CallCreate ==
    /\ call = None
    /\ \E text \in TextShapes, max_width \in 0..MaxWidth, q \in 0..(4 * MaxFontSize) :
         /\ call' = Some([fn |-> "create", text |-> text, max_width |-> max_width,
                          max_font_size |-> q])
         /\ ret' = create(text, max_width, q)
    /\ UNCHANGED <<seqVars, decVars>>

NextText == CallCreate

SpecText == Init /\ [][NextText]_vars

\* The integer sizes from 0 up to `top` at which the text is narrower than L.
FittingSizes(text, L, top) ==
    {s \in 0..top : text.base + (s * text.num) \div text.den < L}

Largest(S) == CHOOSE s \in S : \A t \in S : t <= s

Created == call.some /\ call.val.fn = "create" /\ ret.ok

\* C16 (as stated): the chosen size is the largest integer size that is at most
\* the starting size S and whose width is below L.
C16_LargestSizeBelowStart ==
    Created =>
        LET S == call.val.max_font_size IN
        /\ 4 * ret.val.font_size <= S
        /\ ret.val.font_size = Largest(FittingSizes(call.val.text, call.val.max_width, S \div 4))

\* C16 (amended): the chosen size is the largest integer size that is at most
\* the starting size rounded up and whose width is strictly below L; a call
\* with a smaller starting size never chooses a larger size.
C16_LargestSizeBelowCeil ==
    Created =>
        LET S == call.val.max_font_size
            text == call.val.text
            L == call.val.max_width
            top == (S + 3) \div 4
        IN /\ ret.val.font_size \in FittingSizes(text, L, top)
           /\ ret.val.font_size = Largest(FittingSizes(text, L, top))
           /\ ret.val.rendered_width < L
           /\ \A q \in 0..S :
                create(text, L, q).ok /\ create(text, L, q).val.font_size <= ret.val.font_size

\* a starting size of 5.25 at which the text already fits: size 6 is chosen
C16_Witness ==
    /\ Created
    /\ call.val.max_font_size = 21
    /\ ret.val.font_size = 6
    /\ call.val.text = [base |-> 1, num |-> 3, den |-> 2]
    /\ call.val.max_width = 11

-----------------------------------------------------------------------------
(* Claims about the replies print consumes, checked under Spec *)

\* The table entry of the (width, length) written in a media descriptor d.
DescriptorLabel(d) == label_data(d[6], IF d[7] = 0 THEN None ELSE Some(d[7]))

\* Positions of the log holding a read that succeeded on the transport.
ReplyPositions == {i \in 1..Len(log) : IsRead(log[i]) /\ log[i].ok}

\* C17 (as stated): the feed margin of the margins command is the table feed
\* margin of the (width, length) written in the same call's media descriptor,
\* and no status request is written between the first status reply and the
\* trigger.
C17_MarginsOfDescriptorMedia ==
    LET c == ProtocolCommands
    IN /\ Len(c) >= 5 =>
             /\ DescriptorLabel(c[2]).some
             /\ c[5][4] = DescriptorLabel(c[2]).val.feed_margin
       /\ \A i, j \in 1..Len(log) :
             (i \in ReplyPositions /\ i < j /\ IsWrite(log[j])) => ~IsStatusRequest(log[j])

-----------------------------------------------------------------------------
(* print_blocking without a cap on the iterations of its loop *)

\* One iteration of print_blocking's loop, any number of times: the log keeps
\* the reads of the first MaxPolls iterations that slept; from then on the read
\* of the latest iteration takes the place of the read before it.
PollAgain ==
    /\ pc = "poll"
    /\ \E o \in RxOutcomes :
         /\ log' = IF polls < MaxPolls
                   THEN log \o poll_io(o)
                   ELSE SubSeq(log, 1, Len(log) - 1) \o poll_io(o)
         /\ IF poll_done(read(o))
            THEN /\ blocking_ret' = Ok(Unit)
                 /\ pc' = "done"
                 /\ UNCHANGED polls
            ELSE /\ polls' = IF polls < MaxPolls THEN polls + 1 ELSE polls
                 /\ UNCHANGED <<pc, blocking_ret>>
    /\ UNCHANGED <<entry, raster_lines, status, label, line_idx, print_ret, decVars, fnVars>>

NextWait ==
    \/ CallPrintBlocking
    \/ PrintGetStatusWrite
    \/ PrintGetStatusRead
    \/ PrintModeWrite
    \/ PrintMediaWrite
    \/ PrintAutoCutWrite
    \/ PrintCutSettingsWrite
    \/ CurrentLabelWrite
    \/ CurrentLabelRead
    \/ PrintMarginsWrite
    \/ PrintRasterWrite
    \/ PrintTriggerWrite
    \/ PrintFinalRead
    \/ PollAgain

\* The calling thread keeps running: a call that can take a step takes it.
SpecWait == Init /\ [][NextWait]_vars /\ WF_vars(NextWait)

\* print succeeded under print_blocking and a reply of status type
\* PrintingCompleted (0x01) was delivered after the trigger.
CompletedAfterTrigger ==
    /\ entry = "print_blocking"
    /\ print_ret.ok
    /\ \E t \in TriggerPositions :
          \E i \in (t + 1)..Len(log) : IsReplyOfType(log[i], 1)

\* C18 (as stated): if print succeeds and a PrintingCompleted reply is delivered
\* at any point after the trigger, the reply read right after the trigger
\* included, then print_blocking eventually returns Ok even though no further
\* PrintingCompleted reply follows.
C18_CompletedLeadsToOk == CompletedAfterTrigger ~> (blocking_ret = Ok(Unit))

-----------------------------------------------------------------------------
(* Claims about the failures of print, checked under Spec *)

\* The transport operations made by print itself, get_status and current_label
\* included.
InPrint(ev) == ev.site \in {"print", "get_status", "current_label"}

FailedWrite(ev) == IsWrite(ev) /\ ~ev.ok

FailedRead(ev) == IsRead(ev) /\ ~ev.ok

\* A read that succeeded on the transport but is not 32 bytes long or does not
\* start with 0x80.
MalformedReply(ev) == IsRead(ev) /\ ev.ok /\ (ev.n # 32 \/ ev.data[0] # 128)

\* C19: an operation of print that fails on the transport or reads a malformed
\* reply is the last operation of the call: print has returned the error (which
\* print_blocking forwards) and nothing is written or read after it; after a
\* failed raster-line write the remaining raster lines and the trigger are not
\* written.
C19_FirstFailureEndsPrint ==
    \A i \in 1..Len(log) :
        (InPrint(log[i]) /\ (FailedWrite(log[i]) \/ FailedRead(log[i]) \/ MalformedReply(log[i]))) =>
            /\ i = Len(log)
            /\ pc = "done"
            /\ print_ret = IF MalformedReply(log[i])
                           THEN Err("Invalid response received from printer")
                           ELSE Err("USB")
            /\ (entry = "print_blocking" => blocking_ret = print_ret)
            /\ (IsWrite(log[i]) /\ IsRasterLine(log[i].data) =>
                    /\ TriggerPositions = {}
                    /\ Len(CommandsAfterMargins) <= Len(raster_lines))

\* the first of two raster lines failed to be written
C19_Witness ==
    /\ Len(raster_lines) = 2
    /\ Len(log) > 0
    /\ FailedWrite(log[Len(log)]) /\ IsRasterLine(log[Len(log)].data)
    /\ Len(CommandsAfterMargins) = 1
    /\ print_ret = Err("USB")
    /\ pc = "done"

-----------------------------------------------------------------------------
(* constants.rs: label_data called on its own *)

\* the u8 height and the Option<u8> width handed to label_data
LabelDataInputs == Byte \X ({None} \cup {Some(w) : w \in Byte})

\* one call of label_data
CallLabelData ==
    /\ call = None
    /\ \E k \in LabelDataInputs :
         /\ call' = Some([fn |-> "label_data", height |-> k[1], width |-> k[2]])
         /\ ret' = label_data(k[1], k[2])
    /\ UNCHANGED <<seqVars, decVars>>

NextTable == CallLabelData

SpecTable == InitLabel /\ [][NextTable]_vars

LabelDataCalled == call.some /\ call.val.fn = "label_data"

\* C21 (as stated): a geometry returned by label_data stores the looked-up key
\* as its tape size, the first argument as width in mm and the second as length
\* in mm (0 when it is None); a pair that is not a key of the table returns
\* None.
C21_TapeSizeIsKey ==
    LabelDataCalled =>
        LET first == call.val.height
            second == call.val.width
            is_key == IF second.some
                      THEN <<first, second.val>> \in DieCutKeys
                      ELSE first \in ContinuousKeys
        IN /\ ret.some =>
                ret.val.tape_size = <<first, IF second.some THEN second.val ELSE 0>>
           /\ ~is_key => ~ret.some

-----------------------------------------------------------------------------
(* Claims about the second-row image of rasterize, checked under SpecRaster *)

\* a rasterize call on a TextRasterizer whose second_row_image is set
RasterizedWithImage ==
    call.some /\ call.val.job.some /\ call.val.job.val.second_row_image

\* C22 (as stated): with a second-row image set, for every label geometry the
\* band height is 170 for 12 mm continuous tape and 0 otherwise, the u32
\* subtraction band height - 15 neither underflows (panic) nor wraps, and the
\* resized image is at most the canvas length wide and at most band height - 15
\* high.
C22_OverlayFitsBand ==
    RasterizedWithImage =>
        LET job == call.val.job.val
            band == job.secondary_width
        IN /\ band = (IF job.label.tape_size = <<12, 0>> THEN 170 ELSE 0)
           /\ band >= 15
           /\ ret # Panic("attempt to subtract with overflow")
           /\ job.resized.some
           /\ job.resized.val.w <= job.length
           /\ job.resized.val.h <= band - 15

====
